---- MODULE Spec2Model ----
(***************************************************************************)
(* framepython: a CLI that registers the .py files of a folder under       *)
(* aliases in .framepython.json, installs declared dependencies, runs      *)
(* registered files (--debug) and bundles them (--compile).                *)
(*                                                                         *)
(* Strings whose characters the code inspects (file names, the line read   *)
(* by input(), dependency names) are sequences of one-character strings.   *)
(* Aliases and flag values are TLA+ strings.                               *)
(***************************************************************************)
EXTENDS Naturals, Integers, Sequences, FiniteSets, TLC

VARIABLES
    file,        \* .framepython.json: [exists, content], content a token sequence
    installed,   \* packages the host environment can import
    pc,          \* per process: position in main()
    args,        \* per process: the parsed argparse namespace (recorded in SpecMain)
    cmd,         \* per process: the call main() dispatched to, [op, arg]
    loc,         \* per process: locals of register() / debug()
    out,         \* per process: lines printed by this invocation
    exit,        \* per process: exit status, meaningful when pc = "done"
    calls,       \* per process: subprocesses started and target files executed
    performed,   \* per process: operations entered by this invocation
    fileBefore,  \* per process: the registry file when the invocation started
    dirList,     \* the os.listdir() result of the run recorded in SpecRegister
    stdin,       \* the line typed at the prompt in the run recorded in SpecRegister
    started,     \* order in which concurrent invocations started (SpecConc)
    overlap      \* TRUE once an invocation started while another was running (SpecConc)

vars == <<file, installed, pc, args, cmd, loc, out, exit, calls, performed,
          fileBefore, dirList, stdin, started, overlap>>

Procs == {1, 2}

\* ------------------------------------------------------------------ bounds
MaxFiles == 3
MaxInput == 3

\* ------------------------------------------------------------------ strings
Chars == {"a", ",", " "}

PyExt == <<".", "p", "y">>

Names == { <<"a", ".", "p", "y">>,
           <<"b", ".", "p", "y">>,
           <<".", "p", "y">>,
           <<"c", ".", "p", "y", "c">> }

Listings(n) ==
    UNION { { l \in [1..k -> Names] : \A i, j \in 1..k : i # j => l[i] # l[j] }
            : k \in 0..n }

Inputs(n) == UNION { [1..k -> Chars] : k \in 0..n }

\* str.endswith
EndsWith(s, suf) ==
    /\ Len(s) >= Len(suf)
    /\ SubSeq(s, Len(s) - Len(suf) + 1, Len(s)) = suf

\* str.split(","): the pieces between commas, empty pieces included
RECURSIVE Split(_)
Split(s) ==
    IF \A i \in 1..Len(s) : s[i] # ","
    THEN <<s>>
    ELSE LET c == CHOOSE i \in 1..Len(s) :
                      /\ s[i] = ","
                      /\ \A j \in 1..(i - 1) : s[j] # ","
         IN  <<SubSeq(s, 1, c - 1)>> \o Split(SubSeq(s, c + 1, Len(s)))

RECURSIVE LStrip(_)
LStrip(s) == IF s # <<>> /\ s[1] = " " THEN LStrip(Tail(s)) ELSE s

RECURSIVE RStrip(_)
RStrip(s) ==
    IF s # <<>> /\ s[Len(s)] = " " THEN RStrip(SubSeq(s, 1, Len(s) - 1)) ELSE s

\* str.strip
Strip(s) == RStrip(LStrip(s))

RECURSIVE StripNonEmpty(_)
StripNonEmpty(ps) ==
    IF ps = <<>> THEN <<>>
    ELSE IF Strip(Head(ps)) # <<>>
         THEN <<Strip(Head(ps))>> \o StripNonEmpty(Tail(ps))
         ELSE StripNonEmpty(Tail(ps))

\* [lib.strip() for lib in libs.split(",") if lib.strip()]
ParseDeps(libs) == StripNonEmpty(Split(libs))

\* [f for f in os.listdir(folder) if f.endswith(".py")]
RECURSIVE PyFiles(_)
PyFiles(l) ==
    IF l = <<>> THEN <<>>
    ELSE IF EndsWith(Head(l), PyExt)
         THEN <<Head(l)>> \o PyFiles(Tail(l))
         ELSE PyFiles(Tail(l))

normalize_folder(folder) == IF folder = "current" THEN "." ELSE folder

\* ------------------------------------------------------------------ registry
\* a dict is a sequence of <<key, value>> pairs with unique keys, in insertion order
\* registry = {"files": {}, "dependencies": []}
EmptyRegistry == [files |-> <<>>, dependencies |-> <<>>]

HasKey(d, k) == \E i \in 1..Len(d) : d[i][1] = k

Lookup(d, k) == d[CHOOSE i \in 1..Len(d) : d[i][1] = k][2]

\* d[k] = v
DictSet(d, k, v) ==
    IF HasKey(d, k)
    THEN [i \in 1..Len(d) |-> IF d[i][1] = k THEN <<k, v>> ELSE d[i]]
    ELSE Append(d, <<k, v>>)

AliasKeyOffByOne(i) == IF i = 0 THEN ".FILE" ELSE ".FILE" \o ToString(i)

\* key = ".FILE" if i == 0 else f".FILE{i+1}"   (i is enumerate's 0-based index)
AliasKey(i) == IF i = 0 THEN ".FILE" ELSE ".FILE" \o ToString(i + 1)

RECURSIVE AssignFrom(_, _, _)
AssignFrom(files, py_files, i) ==
    IF i >= Len(py_files) THEN files
    ELSE AssignFrom(DictSet(files, AliasKey(i), py_files[i + 1]), py_files, i + 1)

\* ------------------------------------------------------------------ the file
Absent == [exists |-> FALSE, content |-> <<>>]

Tok(t, k, v) == [t |-> t, k |-> k, v |-> v]

RECURSIVE FileToks(_)
FileToks(d) ==
    IF d = <<>> THEN <<>>
    ELSE <<Tok("file", Head(d)[1], Head(d)[2])>> \o FileToks(Tail(d))

RECURSIVE DepToks(_)
DepToks(ds) ==
    IF ds = <<>> THEN <<>> ELSE <<Tok("dep", "", Head(ds))>> \o DepToks(Tail(ds))

\* json.dump(data, f, indent=2): the text, as a token sequence
json_dump(data) ==
    <<Tok("open", "", <<>>)>> \o FileToks(data.files)
        \o DepToks(data.dependencies) \o <<Tok("close", "", <<>>)>>

\* the text is one complete JSON document
WellFormed(c) ==
    /\ Len(c) >= 2
    /\ c[1].t = "open"
    /\ c[Len(c)].t = "close"
    /\ \A i \in 2..(Len(c) - 1) : c[i].t \in {"file", "dep"}
    /\ \A i, j \in 2..(Len(c) - 1) : (c[i].t = "dep" /\ c[j].t = "file") => j < i

RECURSIVE ToksToReg(_, _)
ToksToReg(c, r) ==
    IF c = <<>> THEN r
    ELSE LET h == Head(c)
         IN  ToksToReg(Tail(c),
                 IF h.t = "file"
                 THEN [r EXCEPT !.files = DictSet(r.files, h.k, h.v)]
                 ELSE IF h.t = "dep"
                      THEN [r EXCEPT !.dependencies = Append(r.dependencies, h.v)]
                      ELSE r)

\* json.load(f)
json_load(c) == ToksToReg(c, EmptyRegistry)

open_w_keep(f) == [exists |-> TRUE, content |-> f.content]

\* open(REGISTRY_FILE, "w"): creates the file or truncates it to nothing
open_w(f) == [exists |-> TRUE, content |-> <<>>]

write_unflushed(f, text) == f

\* the buffered text written at offset 0 when the with-block closes the file
write(f, text) ==
    [exists |-> TRUE,
     content |-> text \o SubSeq(f.content, Len(text) + 1, Len(f.content))]

load_registry_noexit(f) ==
    IF ~f.exists
    THEN [status |-> "ok", reg |-> EmptyRegistry, file |-> f]
    ELSE IF WellFormed(f.content)
         THEN [status |-> "ok", reg |-> json_load(f.content), file |-> f]
         ELSE [status |-> "decode_error", reg |-> EmptyRegistry, file |-> f]

load_registry_truncates(f) ==
    IF ~f.exists
    THEN [status |-> "missing", reg |-> EmptyRegistry, file |-> f]
    ELSE [status |-> "decode_error", reg |-> EmptyRegistry, file |-> open_w(f)]

\* load_registry(): "missing" is the sys.exit(1) branch, "decode_error" the
\* JSONDecodeError json.load raises on text that is not one document; the file
\* is opened for reading and left as it is
load_registry(f) ==
    IF ~f.exists
    THEN [status |-> "missing", reg |-> EmptyRegistry, file |-> f]
    ELSE IF WellFormed(f.content)
         THEN [status |-> "ok", reg |-> json_load(f.content), file |-> f]
         ELSE [status |-> "decode_error", reg |-> EmptyRegistry, file |-> f]

\* ------------------------------------------------------------------ environment
\* packages the package index can deliver; pip fails for every other name
Index == { <<"a">>, <<"a", "a">> }

\* exit codes pip can end with for a requirement
PipResults(dep) == IF dep \in Index THEN {0, 1} ELSE {1}

\* what a target file does when run: return, raise an Exception, or raise
\* SystemExit (sys.exit(code)), which is a BaseException but no Exception
Outcomes == {"returns", "raises", "exits"}

\* the codes a target passes to sys.exit
TargetExitCodes(o) == IF o = "exits" THEN {0, 2} ELSE {0}

\* exit codes of the bundler
BundlerResults == {0, 1}

SampleListings ==
    { <<>>,
      << <<"a", ".", "p", "y">> >>,
      << <<"b", ".", "p", "y">>, <<"c", ".", "p", "y", "c">>, <<"a", ".", "p", "y">> >>,
      << <<"a", ".", "p", "y">>, <<"b", ".", "p", "y">>, <<".", "p", "y">> >> }

SampleInputs ==
    { <<>>,
      <<"a">>,
      <<"a", ",", " ", "a", "a">>,
      <<" ", "a", "a", ",", ",", "a", " ">>,
      <<"a", ",", "a", "a", ",", "a", "a", "a">> }

\* ------------------------------------------------------------------ argparse
NoneV == "<None>"
TrueV == "<True>"

\* Python truthiness of a flag value: None and "" are falsy
Truthy(v) == v \notin {NoneV, ""}

ArgSpace ==
    [register : BOOLEAN,
     folder   : {NoneV, "", "current", "proj"},
     list     : BOOLEAN,
     debug    : {NoneV, TrueV, "", ".FILE", ".FILE2"},
     compile  : {NoneV, "", ".FILE", ".FILE2"}]

NoArgs == [register |-> FALSE, folder |-> NoneV, list |-> FALSE,
           debug |-> NoneV, compile |-> NoneV]

Cmd(op, arg) == [op |-> op, arg |-> arg]

NoCmd == Cmd("none", NoneV)

DispatchListFirst(a) ==
    IF a.list THEN Cmd("list", NoneV)
    ELSE IF a.register
    THEN IF ~Truthy(a.folder) THEN Cmd("usage", NoneV) ELSE Cmd("register", a.folder)
    ELSE IF Truthy(a.debug)
    THEN IF a.debug = TrueV THEN Cmd("debug", NoneV) ELSE Cmd("debug", a.debug)
    ELSE IF Truthy(a.compile) THEN Cmd("compile", a.compile)
    ELSE Cmd("help", NoneV)

\* the if/elif chain of main()
Dispatch(a) ==
    IF a.register
    THEN IF ~Truthy(a.folder) THEN Cmd("usage", NoneV) ELSE Cmd("register", a.folder)
    ELSE IF a.list THEN Cmd("list", NoneV)
    ELSE IF Truthy(a.debug)
    THEN IF a.debug = TrueV THEN Cmd("debug", NoneV) ELSE Cmd("debug", a.debug)
    ELSE IF Truthy(a.compile) THEN Cmd("compile", a.compile)
    ELSE Cmd("help", NoneV)

\* ------------------------------------------------------------------ state
Line(tag, a, b) == [tag |-> tag, a |-> a, b |-> b]

Call(kind, arg, rc, outcome) == [kind |-> kind, arg |-> arg, rc |-> rc, outcome |-> outcome]

InitLoc == [folder |-> "", py_files |-> <<>>, registry |-> EmptyRegistry,
            deps |-> <<>>, targets |-> <<>>, i |-> 1]

SampleRegistry ==
    [files |-> << <<".FILE", <<"a", ".", "p", "y">> >>,
                  <<".FILE2", <<"b", ".", "p", "y">> >> >>,
     dependencies |-> << <<"a">> >>]

SampleFile == write(open_w(Absent), json_dump(SampleRegistry))

InitCommon ==
    /\ cmd = [p \in Procs |-> NoCmd]
    /\ loc = [p \in Procs |-> InitLoc]
    /\ out = [p \in Procs |-> <<>>]
    /\ exit = [p \in Procs |-> 0]
    /\ calls = [p \in Procs |-> <<>>]
    /\ performed = [p \in Procs |-> <<>>]
    /\ started = <<>>
    /\ overlap = FALSE

Init ==
    /\ InitCommon
    /\ file = Absent
    /\ installed \in SUBSET Index
    /\ pc = [p \in Procs |-> "idle"]
    /\ args = [p \in Procs |-> NoArgs]
    /\ fileBefore = [p \in Procs |-> Absent]
    /\ dirList = <<>>
    /\ stdin = <<>>

\* ------------------------------------------------------------------ main()
\* parse_args() gave a; main() dispatches and, for the two branches that only
\* print, finishes
MainEffect(p, a) ==
    LET c == Dispatch(a) IN
    /\ cmd' = [cmd EXCEPT ![p] = c]
    /\ pc' = [pc EXCEPT ![p] = IF c.op \in {"usage", "help"} THEN "done" ELSE c.op]
    /\ out' = [out EXCEPT ![p] =
                  IF c.op = "usage" THEN <<Line("usage", "", <<>>)>>
                  ELSE IF c.op = "help" THEN <<Line("help", "", <<>>)>>
                  ELSE <<>>]
    /\ performed' = [performed EXCEPT ![p] = IF c.op = "help" THEN <<"help">> ELSE <<>>]
    /\ exit' = [exit EXCEPT ![p] = 0]
    /\ calls' = [calls EXCEPT ![p] = <<>>]
    /\ loc' = [loc EXCEPT ![p] = InitLoc]
    /\ fileBefore' = [fileBefore EXCEPT ![p] = file]
    /\ UNCHANGED <<file, installed, dirList, stdin>>

\* one invocation of the tool after the previous one has ended
Invoke(p) ==
    /\ pc[p] \in {"idle", "done"}
    /\ \E a \in ArgSpace : MainEffect(p, a)
    /\ UNCHANGED <<args, started, overlap>>

\* the dispatch of an invocation whose arguments are recorded
Main(p) ==
    /\ pc[p] = "main"
    /\ MainEffect(p, args[p])
    /\ UNCHANGED <<args, started, overlap>>

ConcArgs ==
    { [NoArgs EXCEPT !.register = TRUE, !.folder = "current"],
      [NoArgs EXCEPT !.list = TRUE] }

\* an invocation started while another may be running
InvokeConc(p) ==
    /\ pc[p] = "idle"
    /\ \E a \in ConcArgs : MainEffect(p, a)
    /\ started' = Append(started, p)
    /\ overlap' = (overlap \/ \E q \in Procs \ {p} : pc[q] \notin {"idle", "done"})
    /\ UNCHANGED args

\* ------------------------------------------------------------------ register()
\* lines 43-55: list the folder, assign the aliases, read and parse the libraries
RegisterWith(p, l, s) ==
    /\ pc[p] = "register"
    /\ LET py   == PyFiles(l)
           deps == ParseDeps(s)
       IN  /\ loc' = [loc EXCEPT ![p] =
                        [folder   |-> normalize_folder(cmd[p].arg),
                         py_files |-> py,
                         registry |-> [files |-> AssignFrom(EmptyRegistry.files, py, 0),
                                       dependencies |-> deps],
                         deps     |-> deps,
                         targets  |-> <<>>,
                         i        |-> 1]]
           /\ pc' = [pc EXCEPT ![p] = IF deps = <<>> THEN "save_open" ELSE "ensure"]
    /\ out' = [out EXCEPT ![p] = Append(@, Line("prompt", "", <<>>))]
    /\ performed' = [performed EXCEPT ![p] = Append(@, "register")]
    /\ UNCHANGED <<file, installed, args, cmd, exit, calls, fileBefore,
                   dirList, stdin, started, overlap>>

Register(p) == \E l \in SampleListings, s \in SampleInputs : RegisterWith(p, l, s)

RegisterRecorded(p) == RegisterWith(p, dirList, stdin)

call_unchecked(rc) == FALSE

\* subprocess.check_call raises CalledProcessError on a non-zero exit code
check_call(rc) == rc # 0

\* one iteration of ensure_installed's loop (lines 32-37); an uncaught
\* CalledProcessError ends the process with status 1
EnsureInstalled(p) ==
    /\ pc[p] = "ensure"
    /\ LET i      == loc[p].i
           dep    == loc[p].deps[i]
           nextpc == IF i = Len(loc[p].deps) THEN "save_open" ELSE "ensure"
       IN  IF dep \in installed
           THEN /\ loc' = [loc EXCEPT ![p].i = i + 1]
                /\ pc' = [pc EXCEPT ![p] = nextpc]
                /\ UNCHANGED <<out, calls, installed, exit>>
           ELSE \E rc \in PipResults(dep) :
                /\ calls' = [calls EXCEPT ![p] = Append(@, Call("pip", dep, rc, ""))]
                /\ installed' = IF rc = 0 THEN installed \cup {dep} ELSE installed
                /\ IF check_call(rc)
                   THEN /\ out' = [out EXCEPT ![p] =
                                     @ \o <<Line("installing", "", dep),
                                            Line("uncaught", "CalledProcessError", <<>>)>>]
                        /\ pc' = [pc EXCEPT ![p] = "done"]
                        /\ exit' = [exit EXCEPT ![p] = 1]
                        /\ UNCHANGED loc
                   ELSE /\ out' = [out EXCEPT ![p] = Append(@, Line("installing", "", dep))]
                        /\ pc' = [pc EXCEPT ![p] = nextpc]
                        /\ loc' = [loc EXCEPT ![p].i = i + 1]
                        /\ UNCHANGED exit
    /\ UNCHANGED <<file, args, cmd, performed, fileBefore, dirList, stdin,
                   started, overlap>>

\* save_registry, line 25: open(REGISTRY_FILE, "w")
SaveOpen(p) ==
    /\ pc[p] = "save_open"
    /\ file' = open_w(file)
    /\ pc' = [pc EXCEPT ![p] = "save_write"]
    /\ UNCHANGED <<installed, args, cmd, loc, out, exit, calls, performed,
                   fileBefore, dirList, stdin, started, overlap>>

\* save_registry, line 26 and the close of the with-block, then line 61
SaveWrite(p) ==
    /\ pc[p] = "save_write"
    /\ file' = write(file, json_dump(loc[p].registry))
    /\ out' = [out EXCEPT ![p] = Append(@, Line("registered", "", <<>>))]
    /\ pc' = [pc EXCEPT ![p] = "done"]
    /\ exit' = [exit EXCEPT ![p] = 0]
    /\ UNCHANGED <<installed, args, cmd, loc, calls, performed, fileBefore,
                   dirList, stdin, started, overlap>>

\* ------------------------------------------------------------------ list, debug, compile
\* what a caller of load_registry prints and exits with when it does not return
LoadFailOut(r) ==
    IF r.status = "missing"
    THEN <<Line("no_registry", "", <<>>)>>
    ELSE <<Line("uncaught", "JSONDecodeError", <<>>)>>

RECURSIVE ListLines(_)
ListLines(d) ==
    IF d = <<>> THEN <<>>
    ELSE <<Line("entry", Head(d)[1], Head(d)[2])>> \o ListLines(Tail(d))

ListFiles(p) ==
    /\ pc[p] = "list"
    /\ LET r == load_registry(file) IN
       /\ file' = r.file
       /\ IF r.status = "ok"
          THEN /\ out' = [out EXCEPT ![p] =
                            @ \o <<Line("list_header", "", <<>>)>> \o ListLines(r.reg.files)]
               /\ exit' = [exit EXCEPT ![p] = 0]
          ELSE /\ out' = [out EXCEPT ![p] = @ \o LoadFailOut(r)]
               /\ exit' = [exit EXCEPT ![p] = 1]
    /\ pc' = [pc EXCEPT ![p] = "done"]
    /\ performed' = [performed EXCEPT ![p] = Append(@, "list")]
    /\ UNCHANGED <<installed, args, cmd, loc, calls, fileBefore, dirList, stdin,
                   started, overlap>>

debug_targets_all(reg, dotfile) ==
    [found |-> TRUE, targets |-> reg.files]

\* lines 77-85 of debug(): the targets, or the alias is not registered
debug_targets(reg, dotfile) ==
    IF Truthy(dotfile)
    THEN IF ~HasKey(reg.files, dotfile)
         THEN [found |-> FALSE, targets |-> <<>>]
         ELSE [found |-> TRUE, targets |-> << <<dotfile, Lookup(reg.files, dotfile)>> >>]
    ELSE [found |-> TRUE, targets |-> reg.files]

DebugStart(p) ==
    /\ pc[p] = "debug"
    /\ LET r == load_registry(file)
           t == debug_targets(r.reg, cmd[p].arg)
       IN
       /\ file' = r.file
       /\ IF r.status # "ok"
          THEN /\ out' = [out EXCEPT ![p] = @ \o LoadFailOut(r)]
               /\ exit' = [exit EXCEPT ![p] = 1]
               /\ pc' = [pc EXCEPT ![p] = "done"]
               /\ UNCHANGED loc
          ELSE IF ~t.found
          THEN /\ out' = [out EXCEPT ![p] = Append(@, Line("not_registered", cmd[p].arg, <<>>))]
               /\ exit' = [exit EXCEPT ![p] = 0]
               /\ pc' = [pc EXCEPT ![p] = "done"]
               /\ UNCHANGED loc
          ELSE /\ loc' = [loc EXCEPT ![p].targets = t.targets, ![p].i = 1]
               /\ pc' = [pc EXCEPT ![p] = IF t.targets = <<>> THEN "done" ELSE "debug_loop"]
               /\ exit' = [exit EXCEPT ![p] = 0]
               /\ UNCHANGED out
    /\ performed' = [performed EXCEPT ![p] = Append(@, "debug")]
    /\ UNCHANGED <<installed, args, cmd, calls, fileBefore, dirList, stdin,
                   started, overlap>>

except_nothing(o) == FALSE

\* "except Exception" catches what derives from Exception
except_Exception(o) == o = "raises"

\* one iteration of debug's loop (lines 87-94); an outcome that raises and is
\* not caught ends the process: status 1 for an exception, the target's own
\* code for SystemExit
DebugRun(p) ==
    /\ pc[p] = "debug_loop"
    /\ LET i   == loc[p].i
           tgt == loc[p].targets[i]
           hdr == Line("debugging", tgt[1], tgt[2])
       IN  \E o \in Outcomes : \E code \in TargetExitCodes(o) :
           /\ calls' = [calls EXCEPT ![p] = Append(@, Call("run", tgt[2], code, o))]
           /\ IF o = "returns" \/ except_Exception(o)
              THEN /\ out' = [out EXCEPT ![p] =
                                IF o = "returns" THEN Append(@, hdr)
                                ELSE @ \o <<hdr,
                                            Line("banner_open", "", <<>>),
                                            Line("traceback", "", tgt[2]),
                                            Line("banner_close", "", <<>>)>>]
                   /\ loc' = [loc EXCEPT ![p].i = i + 1]
                   /\ pc' = [pc EXCEPT ![p] =
                               IF i = Len(loc[p].targets) THEN "done" ELSE "debug_loop"]
                   /\ exit' = [exit EXCEPT ![p] = 0]
              ELSE /\ out' = [out EXCEPT ![p] =
                                IF o = "exits" THEN Append(@, hdr)
                                ELSE @ \o <<hdr, Line("uncaught", "Exception", <<>>)>>]
                   /\ pc' = [pc EXCEPT ![p] = "done"]
                   /\ exit' = [exit EXCEPT ![p] = IF o = "exits" THEN code ELSE 1]
                   /\ UNCHANGED loc
    /\ UNCHANGED <<file, installed, args, cmd, performed, fileBefore, dirList,
                   stdin, started, overlap>>

\* compile_file(): subprocess.run's return code is not looked at
Compile(p) ==
    /\ pc[p] = "compile"
    /\ LET r == load_registry(file) IN
       /\ file' = r.file
       /\ IF r.status # "ok"
          THEN /\ out' = [out EXCEPT ![p] = @ \o LoadFailOut(r)]
               /\ exit' = [exit EXCEPT ![p] = 1]
               /\ UNCHANGED calls
          ELSE IF ~HasKey(r.reg.files, cmd[p].arg)
          THEN /\ out' = [out EXCEPT ![p] = Append(@, Line("not_registered", cmd[p].arg, <<>>))]
               /\ exit' = [exit EXCEPT ![p] = 0]
               /\ UNCHANGED calls
          ELSE \E rc \in BundlerResults :
               /\ out' = [out EXCEPT ![p] =
                            Append(@, Line("compiling", cmd[p].arg, Lookup(r.reg.files, cmd[p].arg)))]
               /\ calls' = [calls EXCEPT ![p] =
                              Append(@, Call("PyInstaller", Lookup(r.reg.files, cmd[p].arg), rc, ""))]
               /\ exit' = [exit EXCEPT ![p] = 0]
    /\ pc' = [pc EXCEPT ![p] = "done"]
    /\ performed' = [performed EXCEPT ![p] = Append(@, "compile")]
    /\ UNCHANGED <<installed, args, cmd, loc, fileBefore, dirList, stdin,
                   started, overlap>>

\* ------------------------------------------------------------------ specifications
\* one invocation after another
Next ==
    \/ Invoke(1)
    \/ Register(1)
    \/ EnsureInstalled(1)
    \/ SaveOpen(1)
    \/ SaveWrite(1)
    \/ ListFiles(1)
    \/ DebugStart(1)
    \/ DebugRun(1)
    \/ Compile(1)

Spec == Init /\ [][Next]_vars

\* one invocation with its command line recorded in args
InitMain ==
    /\ InitCommon
    /\ \E f \in {Absent, SampleFile} :
          /\ file = f
          /\ fileBefore = [p \in Procs |-> f]
    /\ installed \in SUBSET Index
    /\ pc = [p \in Procs |-> IF p = 1 THEN "main" ELSE "idle"]
    /\ args \in [Procs -> ArgSpace]
    /\ args[2] = NoArgs
    /\ dirList = <<>>
    /\ stdin = <<>>

NextMain ==
    \/ Main(1)
    \/ Register(1)
    \/ EnsureInstalled(1)
    \/ SaveOpen(1)
    \/ SaveWrite(1)
    \/ ListFiles(1)
    \/ DebugStart(1)
    \/ DebugRun(1)
    \/ Compile(1)

SpecMain == InitMain /\ [][NextMain]_vars

\* one register("current") with the folder listing and the typed line recorded
InitRegister ==
    /\ InitCommon
    /\ \E f \in {Absent, SampleFile} :
          /\ file = f
          /\ fileBefore = [p \in Procs |-> f]
    /\ installed \in SUBSET Index
    /\ pc = [p \in Procs |-> IF p = 1 THEN "main" ELSE "idle"]
    /\ args = [p \in Procs |->
                 IF p = 1 THEN [NoArgs EXCEPT !.register = TRUE, !.folder = "current"]
                 ELSE NoArgs]
    /\ dirList \in Listings(MaxFiles)
    /\ stdin \in Inputs(MaxInput)

NextRegister ==
    \/ Main(1)
    \/ RegisterRecorded(1)
    \/ EnsureInstalled(1)
    \/ SaveOpen(1)
    \/ SaveWrite(1)

SpecRegister == InitRegister /\ [][NextRegister]_vars

\* two invocations on the same project directory, steps interleaved
NextConc ==
    \E p \in Procs :
        \/ InvokeConc(p)
        \/ Register(p)
        \/ EnsureInstalled(p)
        \/ SaveOpen(p)
        \/ SaveWrite(p)
        \/ ListFiles(p)

SpecConc == Init /\ [][NextConc]_vars

\* ------------------------------------------------------------------ properties
Registered(p) == \E i \in 1..Len(out[p]) : out[p][i].tag = "registered"

Intact(f) == f.exists /\ WellFormed(f.content)

CountTag(p, tag) == Cardinality({i \in 1..Len(out[p]) : out[p][i].tag = tag})

\* C1: debug() with no alias attempts every registered file, in registry order,
\* whatever an earlier target does, and exactly the targets that raised an
\* exception are reported between the two banners.
C1_BatchNeverAborted ==
    \A p \in Procs :
        (pc[p] = "done" /\ cmd[p] = Cmd("debug", NoneV) /\ Intact(fileBefore[p])) =>
            LET files == json_load(fileBefore[p].content).files IN
            /\ Len(calls[p]) = Len(files)
            /\ \A i \in 1..Len(files) :
                  calls[p][i].kind = "run" /\ calls[p][i].arg = files[i][2]
            /\ CountTag(p, "banner_open")
                  = Cardinality({i \in 1..Len(calls[p]) : calls[p][i].outcome = "raises"})
            /\ CountTag(p, "banner_close") = CountTag(p, "banner_open")

\* the listed positions whose name ends with ".py"
PyIdx(l) ==
    {j \in 1..Len(l) :
        /\ Len(l[j]) >= 3
        /\ l[j][Len(l[j]) - 2] = "."
        /\ l[j][Len(l[j]) - 1] = "p"
        /\ l[j][Len(l[j])] = "y"}

ExpectedKey(r) == IF r = 1 THEN ".FILE" ELSE ".FILE" \o ToString(r)

FilesAsSpecified(files, l) ==
    /\ Len(files) = Cardinality(PyIdx(l))
    /\ \A j \in PyIdx(l) :
          LET r == 1 + Cardinality({h \in PyIdx(l) : h < j})
          IN  files[r] = <<ExpectedKey(r), l[j]>>

\* the comma-free stretches of s, as <<position before, position after>>
Bnd(s) == {0, Len(s) + 1} \cup {i \in 1..Len(s) : s[i] = ","}

Segs(s) ==
    {g \in Bnd(s) \X Bnd(s) :
        g[1] < g[2] /\ \A b \in Bnd(s) : ~(g[1] < b /\ b < g[2])}

NonBlankAt(s, g) == {i \in (g[1] + 1)..(g[2] - 1) : s[i] # " "}

NonBlankSegs(s) == {g \in Segs(s) : NonBlankAt(s, g) # {}}

Trimmed(s, g) ==
    LET nb == NonBlankAt(s, g)
        lo == CHOOSE i \in nb : \A j \in nb : i <= j
        hi == CHOOSE i \in nb : \A j \in nb : j <= i
    IN  SubSeq(s, lo, hi)

DepsAsSpecified(deps, s) ==
    /\ Len(deps) = Cardinality(NonBlankSegs(s))
    /\ \A g \in NonBlankSegs(s) :
          deps[1 + Cardinality({h \in NonBlankSegs(s) : h[1] < g[1]})] = Trimmed(s, g)

C3_FullReplace ==
    \A p \in Procs :
        (pc[p] = "done" /\ cmd[p].op = "register" /\ Registered(p)) =>
            /\ file = [exists |-> TRUE, content |-> json_dump(loc[p].registry)]
            /\ Len(loc[p].registry.files) = Len(loc[p].py_files)
            /\ \A i \in 1..Len(loc[p].py_files) :
                  loc[p].registry.files[i][2] = loc[p].py_files[i]
            /\ loc[p].registry.dependencies = loc[p].deps

C3_Witness ==
    /\ pc[1] = "done" /\ cmd[1].op = "register" /\ Registered(1)
    /\ Intact(fileBefore[1])
    /\ Len(json_load(fileBefore[1].content).files) = 3
    /\ Len(json_load(fileBefore[1].content).dependencies) = 2
    /\ Len(loc[1].registry.files) = 1
    /\ loc[1].registry.dependencies = <<>>

UnknownAlias(p) ==
    /\ cmd[p].op \in {"debug", "compile"}
    /\ cmd[p].arg # NoneV
    /\ Intact(fileBefore[p])
    /\ ~HasKey(json_load(fileBefore[p].content).files, cmd[p].arg)

\* C4: with a registry in place, debug or compile of an alias that is no key of
\* it prints "not registered", runs no target, starts no subprocess and ends
\* with status 0.
C4_UnknownAlias ==
    \A p \in Procs :
        (pc[p] = "done" /\ UnknownAlias(p)) =>
            /\ out[p] = <<Line("not_registered", cmd[p].arg, <<>>)>>
            /\ calls[p] = <<>>
            /\ exit[p] = 0

C4_Witness ==
    /\ pc[1] = "done"
    /\ UnknownAlias(1)
    /\ cmd[1] = Cmd("debug", ".FILE2")
    /\ Len(json_load(fileBefore[1].content).files) = 1

RegistryMissing(p) ==
    /\ cmd[p].op \in {"list", "debug", "compile"}
    /\ ~fileBefore[p].exists

\* C5: without a registry file, list, debug and compile print the "not
\* registered yet" message and end with a non-zero status, having run no
\* target, started no subprocess and left the file absent.
C5_RegistryMissing ==
    \A p \in Procs :
        (RegistryMissing(p) /\ pc[p] # cmd[p].op) =>
            /\ pc[p] = "done"
            /\ out[p] = <<Line("no_registry", "", <<>>)>>
            /\ exit[p] # 0
            /\ calls[p] = <<>>
            /\ ~file.exists

C5_Witness ==
    /\ pc[1] = "done"
    /\ RegistryMissing(1)
    /\ cmd[1] = Cmd("debug", NoneV)
    /\ exit[1] = 1

InstallFailed(p) ==
    /\ cmd[p].op = "register"
    /\ calls[p] # <<>>
    /\ calls[p][Len(calls[p])].kind = "pip"
    /\ calls[p][Len(calls[p])].rc # 0

TargetExited(p) ==
    /\ cmd[p].op = "debug"
    /\ calls[p] # <<>>
    /\ calls[p][Len(calls[p])].outcome = "exits"
    /\ calls[p][Len(calls[p])].rc # 0

FirstMatch(a) ==
    IF a.register THEN "register"
    ELSE IF a.list THEN "list"
    ELSE IF Truthy(a.debug) THEN "debug"
    ELSE IF Truthy(a.compile) THEN "compile"
    ELSE "help"

\* C7 as claimed: every flag combination performs exactly one of register,
\* list, debug, compile and help, the first the flags name in that order.
C7_ExactlyOneOfFive ==
    pc[1] = "done" => performed[1] = <<FirstMatch(args[1])>>

\* C7 amended: a valued flag counts as given when its value is non-empty; with
\* --register and no folder only a usage line is printed and none of the five
\* runs; otherwise exactly one runs, the first given in the order register,
\* list, debug, compile, help, debug over all files for a bare --debug and over
\* the one alias for --debug ALIAS.
C7_DispatchFirstMatch ==
    LET a == args[1] IN
    pc[1] # "main" =>
        /\ Len(performed[1]) <= 1
        /\ (a.register /\ ~Truthy(a.folder)) =>
              /\ cmd[1].op = "usage"
              /\ pc[1] = "done" /\ performed[1] = <<>>
              /\ out[1] = <<Line("usage", "", <<>>)>>
        /\ (a.register /\ Truthy(a.folder)) => cmd[1] = Cmd("register", a.folder)
        /\ (~a.register /\ a.list) => cmd[1] = Cmd("list", NoneV)
        /\ (~a.register /\ ~a.list /\ a.debug = TrueV) => cmd[1] = Cmd("debug", NoneV)
        /\ (~a.register /\ ~a.list /\ Truthy(a.debug) /\ a.debug # TrueV) =>
              cmd[1] = Cmd("debug", a.debug)
        /\ (~a.register /\ ~a.list /\ ~Truthy(a.debug) /\ Truthy(a.compile)) =>
              cmd[1] = Cmd("compile", a.compile)
        /\ (~a.register /\ ~a.list /\ ~Truthy(a.debug) /\ ~Truthy(a.compile)) =>
              cmd[1].op = "help"
        /\ (pc[1] = "done" /\ cmd[1].op # "usage") => performed[1] = <<cmd[1].op>>

C7_Witness ==
    /\ pc[1] = "done"
    /\ args[1].register /\ args[1].folder = NoneV
    /\ args[1].list /\ args[1].debug = TrueV /\ args[1].compile = ".FILE"
    /\ performed[1] = <<>>

\* C8: only register writes the registry file: during and after list, debug,
\* compile, help and --register without a folder the file is what it was when
\* the invocation started.
C8_OnlyRegisterWrites ==
    \A p \in Procs :
        (pc[p] # "idle" /\ cmd[p].op # "register") => file = fileBefore[p]

C8_Witness ==
    /\ pc[1] = "done"
    /\ cmd[1] = Cmd("debug", NoneV)
    /\ Len(calls[1]) = 3
    /\ Intact(file)

DecodeError(p) ==
    \E i \in 1..Len(out[p]) : out[p][i] = Line("uncaught", "JSONDecodeError", <<>>)

Quiet == \A p \in Procs : pc[p] \in {"idle", "done"}

\* C9: nothing guards the file, so the bad outcomes need two invocations that
\* overlap: as long as none overlapped, no load met a torn file and, once all
\* have ended, the file holds the registry of the last register that completed.
C9_BadOnlyByOverlap ==
    ~overlap =>
        /\ \A p \in Procs : ~DecodeError(p)
        /\ (Quiet /\ \E i \in 1..Len(started) : Registered(started[i])) =>
              LET k == CHOOSE i \in 1..Len(started) :
                          /\ Registered(started[i])
                          /\ \A j \in (i + 1)..Len(started) : ~Registered(started[j])
              IN  file = [exists |-> TRUE,
                          content |-> json_dump(loc[started[k]].registry)]

\* a list that ran between a register's truncation and its write
C9_TornRead ==
    /\ overlap
    /\ pc[2] = "done" /\ cmd[2].op = "list" /\ DecodeError(2)
    /\ pc[1] = "save_write" /\ cmd[1].op = "register"
    /\ file = [exists |-> TRUE, content |-> <<>>]

\* two registers both reported success and the file is no complete document
C9_CorruptFile ==
    /\ Quiet
    /\ Registered(1) /\ Registered(2)
    /\ ~Intact(file)

\* two registers both reported success and the file holds only the registry of
\* the one that started first
C9_LostUpdate ==
    /\ Quiet
    /\ started = <<1, 2>>
    /\ Registered(1) /\ Registered(2)
    /\ loc[1].registry # loc[2].registry
    /\ file.content = json_dump(loc[1].registry)

PipFailed(p) ==
    \E k \in 1..Len(calls[p]) : calls[p][k].kind = "pip" /\ calls[p][k].rc # 0

\* C10: register writes the file only after the whole dependency list went
\* through ensure_installed; when an install fails the invocation ends there:
\* the file is as it was, "Project registered!" is not printed, the failing
\* install is the last one attempted, and what was installed before stays.
C10_InstallFailureLeavesRegistry ==
    \A p \in Procs :
        /\ (cmd[p].op = "register" /\ file # fileBefore[p]) =>
              /\ pc[p] \in {"save_write", "done"}
              /\ loc[p].i = Len(loc[p].deps) + 1
        /\ PipFailed(p) =>
              LET n == Len(calls[p]) IN
              /\ pc[p] = "done"
              /\ exit[p] # 0
              /\ file = fileBefore[p]
              /\ ~Registered(p)
              /\ calls[p][n].rc # 0
              /\ calls[p][n].arg = loc[p].deps[loc[p].i]
              /\ \A j \in 1..(n - 1) :
                    calls[p][j].rc = 0 /\ calls[p][j].arg \in installed

C10_Witness ==
    /\ pc[1] = "done"
    /\ PipFailed(1)
    /\ Len(calls[1]) = 2
    /\ loc[1].i = 2
    /\ Len(loc[1].deps) = 3
    /\ Intact(fileBefore[1])
====
